---- MODULE Spec2Model ----
(***************************************************************************)
(* One invocation of hyper_inspector.py: argument parsing, the scoped      *)
(* engine process, the inspect / export / discover commands with their     *)
(* queries against the (opaque) engine, the JSON output and the exit code. *)
(***************************************************************************)
EXTENDS Integers, Sequences, FiniteSets, TLC

VARIABLES pc, argv, hyper_process, connection, result, schemas, cur, todo,
          tables, total, facts, listed, trace, stdout, outfile, exit_code,
          raised

vars == <<pc, argv, hyper_process, connection, result, schemas, cur, todo,
          tables, total, facts, listed, trace, stdout, outfile, exit_code,
          raised>>

\* ------------------------------------------------------------------ bounds
MaxSchemas == 2
MaxTables == 2
MaxTableRows == 6
MaxN == 8
MaxFiles == 2

\* ------------------------------------------------------- python primitives
Min(a, b) == IF a <= b THEN a ELSE b

Range(n) == [i \in 1..n |-> i]

None == [given |-> FALSE, v |-> 0]
Some(n) == [given |-> TRUE, v |-> n]
\* truth value of an Optional[int]: None and 0 are falsy
Truthy(x) == x.given /\ x.v # 0

\* a value of a JSON field that is a number or a string
PyInt(n) == [type |-> "int", v |-> n]
PyStr == [type |-> "str", v |-> 0]

\* ------------------------------------------------------------- file system
\* path names are character sequences
HyperUpper == <<"A", ".", "H", "Y", "P", "E", "R">>
HyperMissing == <<"m", ".", "h", "y", "p", "e", "r">>
NoDotHyper == <<"h", "y", "p", "e", "r">>
TextFile == <<"n", ".", "t", "x", "t">>
TextMissing == <<"x", ".", "t", "x", "t">>
DataDir == <<"d">>
DirMissing == <<"q">>

Paths == {HyperUpper, HyperMissing, NoDotHyper, TextFile, TextMissing,
          DataDir, DirMissing}
Exists(path) == path \in {HyperUpper, NoDotHyper, TextFile, DataDir}
IsDir(path) == path = DataDir

LowerChar(c) ==
    CASE c = "A" -> "a"
      [] c = "H" -> "h"
      [] c = "Y" -> "y"
      [] c = "P" -> "p"
      [] c = "E" -> "e"
      [] c = "R" -> "r"
      [] OTHER -> c
Lower(s) == [i \in 1..Len(s) |-> LowerChar(s[i])]
EndsWith(s, suffix) ==
    /\ Len(s) >= Len(suffix)
    /\ SubSeq(s, Len(s) - Len(suffix) + 1, Len(s)) = suffix
DotHyper == <<".", "h", "y", "p", "e", "r">>

\* ------------------------------------------------------------ command line
Choices == {"inspect", "discover", "export"}
Commands == Choices \cup {"bogus"}
MaxRowsArgs == {None, Some(-1), Some(0), Some(2), Some(MaxN)}
\* the flags export reads: --sample-only alone, and together with a
\* --max-rows larger than the sample size; --max-rows alone with every value
Modes == {m \in [sample_only : BOOLEAN, max_rows : MaxRowsArgs] :
            m.sample_only => m.max_rows \in {None, Some(MaxN)}}
\* the command line before any argument has been read
NoArgs == [command |-> "", path |-> <<>>, sample_only |-> FALSE,
           max_rows |-> None, output |-> FALSE]

\* ------------------------------------------------------------------ engine
\* the table sizes of the files inspected: empty, and larger than the sample
\* size and than the small --max-rows value
RowCounts == {0, MaxTableRows}
NoLimit == [limited |-> FALSE, n |-> 0]
Limit(n) == [limited |-> TRUE, n |-> n]
\* the engine refuses a negative LIMIT
EngineRejects(q) == q.limited /\ q.n < 0
\* the rows a SELECT * returns from a table of nrows rows
ExecuteSelect(nrows, q) ==
    IF q.limited THEN Range(Min(q.n, nrows)) ELSE Range(nrows)

\* ----------------------------------------------------------------- results
Pending == [pending |-> TRUE]
PayloadKeys == {"schemas", "tables", "total_tables", "total_rows",
                "total_rows_exported", "files", "files_found"}
Returned == "success" \in DOMAIN result

Ev(ev, s, t, ok) == [ev |-> ev, s |-> s, t |-> t, ok |-> ok]
Json(obj) == [kind |-> "json", obj |-> obj]
Warning(s, t) == [kind |-> "warning", obj |-> [s |-> s, t |-> t]]

Init ==
    /\ pc = "import"
    /\ argv = NoArgs
    /\ hyper_process = "none"
    /\ connection = "none"
    /\ result = Pending
    /\ schemas = <<>>
    /\ cur = 0
    /\ todo = 0
    /\ tables = <<>>
    /\ total = 0
    /\ facts = <<>>
    /\ listed = 0
    /\ trace = <<>>
    /\ stdout = <<>>
    /\ outfile = <<>>
    /\ exit_code = -1
    /\ raised = FALSE

\* ------------------------------------------------ code of the two commands
\* variant: the extension is never checked
CheckPathNoExt(path) ==
    IF ~Exists(path) THEN "File not found" ELSE "ok"

\* variant: the extension is checked before the existence
CheckPathExtFirst(path) ==
    IF ~EndsWith(Lower(path), DotHyper) THEN "Not a .hyper file"
    ELSE IF ~Exists(path) THEN "File not found"
    ELSE "ok"

\* the path checks that open inspect_file and export_file_data
CheckPath(path) ==
    IF ~Exists(path) THEN "File not found"
    ELSE IF ~EndsWith(Lower(path), DotHyper) THEN "Not a .hyper file"
    ELSE "ok"

\* variant: the data query of export is not wrapped in a try
GuardedNoData(command) ==
    IF command = "export" THEN {"schemas", "count"}
    ELSE {"count", "data"}

\* variant: the schema query of export has no fallback
GuardedNoFallback(command) == {"count", "data"}

\* the queries whose failure a command handles in place (inner try/except)
Guarded(command) ==
    IF command = "export" THEN {"schemas", "count", "data"}
    ELSE {"count", "data"}

\* variant: an export without flags falls back to the sample query
DataQueryDefaultSample(sample_only, max_rows) ==
    IF sample_only \/ ~Truthy(max_rows) THEN Limit(5)
    ELSE Limit(max_rows.v)

\* variant: --max-rows is looked at before --sample-only
DataQueryMaxFirst(sample_only, max_rows) ==
    IF Truthy(max_rows) THEN Limit(max_rows.v)
    ELSE IF sample_only THEN Limit(5)
    ELSE NoLimit

\* the data query export issues for a table
DataQuery(sample_only, max_rows) ==
    IF sample_only THEN Limit(5)
    ELSE IF Truthy(max_rows) THEN Limit(max_rows.v)
    ELSE NoLimit

\* the rows appended to exported_data when the try block of the data loop
\* raises: the failure is taken at its latest point, the conversion of the
\* last row returned; an earlier failure (the query itself raising) leaves
\* fewer rows and ends in the same except clause
ConvertedBeforeFailure(rows) ==
    IF rows = <<>> THEN <<>> ELSE SubSeq(rows, 1, Len(rows) - 1)

\* variant: the except clause keeps the rows converted so far
OnDataFailureKeep(partial) == partial

\* exported_data = [] in the except clause of the data loop
OnDataFailure(partial) == <<>>

\* variant: the sample query has no LIMIT clause
SampleQueryNoLimit == NoLimit

\* the sample query inspect issues for a table
SampleQuery == Limit(5)

\* variant: the count is assigned instead of added
AddRowCountAssign(acc, row_count) == row_count

\* total_rows += row_count
AddRowCount(acc, row_count) == acc + row_count

\* variant: the process is closed on the normal path only
InspectorExitOnSuccess(hp, exc) ==
    IF exc THEN hp ELSE IF hp = "running" THEN "closed" ELSE hp

\* HyperFileInspector.__exit__: close the process if there is one
InspectorExit(hp, exc) == IF hp = "running" THEN "closed" ELSE hp

\* variant: the handler prints the error and lets main return
ExitStatusNoExit(exc) == IF exc THEN 0 ELSE 0

\* the exit status of main: sys.exit(1) in the handler, 0 when main returns
ExitStatus(exc) == IF exc THEN 1 ELSE 0

\* Connection.__exit__ of the with block
ConnectionExit(conn, exc) == "closed"

ErrorResult(err) == [error |-> err, success |-> FALSE, file_path |-> argv.path]

\* an exception leaves the with Connection block and is caught by the
\* command's except clause
Abort(evs) ==
    /\ trace' = trace \o evs \o <<Ev("conn_close", 0, 0, TRUE)>>
    /\ connection' = ConnectionExit(connection, TRUE)
    /\ result' = ErrorResult("Hyper API error")
    /\ pc' = "output"

\* ----------------------------------------------------------------- actions
ImportModule ==
    /\ pc = "import"
    /\ \E ok \in BOOLEAN :
        IF ok
        THEN /\ pc' = "parse"
             /\ UNCHANGED <<stdout, exit_code, raised>>
        ELSE /\ stdout' = Append(stdout,
                    Json([error |-> "tableauhyperapi not installed",
                          success |-> FALSE]))
             /\ exit_code' = 1
             /\ raised' = TRUE
             /\ pc' = "exited"
    /\ UNCHANGED <<argv, hyper_process, connection, result, schemas, cur, todo,
                   tables, total, facts, listed, trace, outfile>>

\* parse_args fixes the command line; the model draws each argument in the
\* action that first reads it, and the parser refuses an unknown command
ParseArgs ==
    /\ pc = "parse"
    /\ \E c \in Commands :
        /\ argv' = [argv EXCEPT !.command = c]
        /\ IF c \in Choices
           THEN pc' = "enter" /\ UNCHANGED exit_code
           ELSE pc' = "exited" /\ exit_code' = 2
    /\ UNCHANGED <<hyper_process, connection, result, schemas, cur, todo,
                   tables, total, facts, listed, trace, stdout, outfile, raised>>

Enter ==
    /\ pc = "enter"
    /\ \E ok \in BOOLEAN :
        /\ trace' = Append(trace, Ev("process_start", 0, 0, ok))
        /\ IF ok
           THEN hyper_process' = "running" /\ pc' = "command" /\ UNCHANGED raised
           ELSE raised' = TRUE /\ pc' = "handler" /\ UNCHANGED hyper_process
    /\ UNCHANGED <<argv, connection, result, schemas, cur, todo, tables, total,
                   facts, listed, stdout, outfile, exit_code>>

Discover ==
    /\ pc = "command"
    /\ argv.command = "discover"
    /\ \E p \in Paths :
        /\ argv' = [argv EXCEPT !.path = p]
        /\ IF ~Exists(p)
           THEN result' = [error |-> "Directory not found", success |-> FALSE]
           ELSE IF ~IsDir(p)
           THEN result' = [error |-> "Not a directory", success |-> FALSE]
           ELSE \E ok \in BOOLEAN, k \in 0..MaxFiles :
                result' = IF ok
                          THEN [success |-> TRUE, directory |-> p,
                                files_found |-> k, files |-> Range(k)]
                          ELSE [error |-> "Error discovering files",
                                success |-> FALSE, directory |-> p]
    /\ pc' = "output"
    /\ UNCHANGED <<hyper_process, connection, schemas, cur, todo, tables,
                   total, facts, listed, trace, stdout, outfile, exit_code,
                   raised>>

Precheck ==
    /\ pc = "command"
    /\ argv.command \in {"inspect", "export"}
    /\ \E p \in Paths, m \in Modes :
        /\ argv.command = "inspect" => (~m.sample_only /\ m.max_rows = None)
        /\ argv' = [argv EXCEPT !.path = p, !.sample_only = m.sample_only,
                                !.max_rows = m.max_rows]
        /\ LET c == CheckPath(p) IN
           IF c # "ok"
           THEN result' = [error |-> c, success |-> FALSE] /\ pc' = "output"
           ELSE pc' = "connect" /\ UNCHANGED result
    /\ UNCHANGED <<hyper_process, connection, schemas, cur, todo, tables,
                   total, facts, listed, trace, stdout, outfile, exit_code,
                   raised>>

Connect ==
    /\ pc = "connect"
    /\ \E ok \in BOOLEAN :
        /\ trace' = Append(trace, Ev("conn_open", 0, 0, ok))
        /\ IF ok
           THEN connection' = "open" /\ pc' = "schemas" /\ UNCHANGED result
           ELSE /\ result' = ErrorResult("Hyper API error")
                /\ pc' = "output"
                /\ UNCHANGED connection
    /\ UNCHANGED <<argv, hyper_process, schemas, cur, todo, tables, total,
                   facts, listed, stdout, outfile, exit_code, raised>>

SchemasQuery ==
    /\ pc = "schemas"
    /\ \E ok \in BOOLEAN, k \in 0..MaxSchemas :
        IF ok
        THEN /\ schemas' = Range(k)
             /\ cur' = 1
             /\ trace' = Append(trace, Ev("q_schemas", 0, 0, TRUE))
             /\ pc' = "tables"
             /\ UNCHANGED <<connection, result>>
        ELSE IF "schemas" \in Guarded(argv.command)
        THEN /\ trace' = Append(trace, Ev("q_schemas", 0, 0, FALSE))
             /\ pc' = "schemas_alt"
             /\ UNCHANGED <<schemas, cur, connection, result>>
        ELSE /\ Abort(<<Ev("q_schemas", 0, 0, FALSE)>>)
             /\ UNCHANGED <<schemas, cur>>
    /\ UNCHANGED <<argv, hyper_process, todo, tables, total, facts, listed,
                   stdout, outfile, exit_code, raised>>

SchemasFallback ==
    /\ pc = "schemas_alt"
    /\ \E ok \in BOOLEAN, k \in 0..MaxSchemas :
        IF ok
        THEN /\ schemas' = Range(k)
             /\ cur' = 1
             /\ trace' = Append(trace, Ev("q_schemas_alt", 0, 0, TRUE))
             /\ pc' = "tables"
             /\ UNCHANGED <<connection, result>>
        ELSE /\ Abort(<<Ev("q_schemas_alt", 0, 0, FALSE)>>)
             /\ UNCHANGED <<schemas, cur>>
    /\ UNCHANGED <<argv, hyper_process, todo, tables, total, facts, listed,
                   stdout, outfile, exit_code, raised>>

TablesQuery ==
    /\ pc = "tables"
    /\ cur <= Len(schemas)
    /\ \E ok \in BOOLEAN, k \in 0..(MaxTables - listed) :
        IF ok
        THEN /\ trace' = Append(trace, Ev("q_tables", schemas[cur], 0, TRUE))
             /\ todo' = k
             /\ listed' = listed + k
             /\ IF k = 0
                THEN cur' = cur + 1 /\ pc' = "tables"
                ELSE pc' = "table" /\ UNCHANGED cur
             /\ UNCHANGED <<connection, result>>
        ELSE /\ Abort(<<Ev("q_tables", schemas[cur], 0, FALSE)>>)
             /\ UNCHANGED <<todo, listed, cur>>
    /\ UNCHANGED <<argv, hyper_process, schemas, tables, total, facts, stdout,
                   outfile, exit_code, raised>>

\* the loop step after a table has been appended
NextTable ==
    /\ todo' = todo - 1
    /\ IF todo = 1
       THEN cur' = cur + 1 /\ pc' = "tables"
       ELSE pc' = "table" /\ UNCHANGED cur

ExportTable ==
    /\ pc = "table"
    /\ argv.command = "export"
    /\ \E n \in RowCounts, colOk \in BOOLEAN, countOk \in BOOLEAN,
          dataOk \in BOOLEAN :
        LET s == schemas[cur]
            t == Len(tables) + 1
            g == Guarded(argv.command)
            q == DataQuery(argv.sample_only, argv.max_rows)
            rows == IF EngineRejects(q) THEN <<>> ELSE ExecuteSelect(n, q)
            dOk == dataOk /\ ~EngineRejects(q)
            partial == ConvertedBeforeFailure(rows)
            total_rows == IF countOk THEN n ELSE 0
            exported_data == IF dOk THEN rows ELSE OnDataFailure(partial)
            evCol == Ev("q_columns", s, t, colOk)
            evCount == Ev("q_count", s, t, countOk)
            evData == Ev("q_data", s, t, dOk)
        IN
        /\ IF ~colOk
           THEN Abort(<<evCol>>)
                /\ UNCHANGED <<tables, total, facts, stdout, todo, cur>>
           ELSE IF ~countOk /\ "count" \notin g
           THEN Abort(<<evCol, evCount>>)
                /\ UNCHANGED <<tables, total, facts, stdout, todo, cur>>
           ELSE IF ~dOk /\ "data" \notin g
           THEN Abort(<<evCol, evCount, evData>>)
                /\ UNCHANGED <<tables, total, facts, stdout, todo, cur>>
           ELSE
             /\ trace' = trace \o <<evCol, evCount, evData>>
             /\ tables' = Append(tables,
                    [schema |-> s, name |-> t, total_rows |-> total_rows,
                     exported_rows |-> Len(exported_data),
                     data |-> exported_data])
             /\ total' = IF dOk THEN total + Len(rows) ELSE total
             /\ stdout' = IF dOk THEN stdout ELSE Append(stdout, Warning(s, t))
             /\ facts' = Append(facts,
                    [nrows |-> n, count_ok |-> countOk, data_ok |-> dOk,
                     converted |-> IF dOk THEN Len(rows) ELSE Len(partial)])
             /\ NextTable
             /\ UNCHANGED <<connection, result>>
    /\ UNCHANGED <<argv, hyper_process, schemas, listed, outfile, exit_code,
                   raised>>

InspectTable ==
    /\ pc = "table"
    /\ argv.command = "inspect"
    /\ \E n \in RowCounts, colOk \in BOOLEAN, countOk \in BOOLEAN,
          dataOk \in BOOLEAN :
        LET s == schemas[cur]
            t == Len(tables) + 1
            g == Guarded(argv.command)
            dOk == dataOk /\ ~EngineRejects(SampleQuery)
            row_count == IF countOk THEN PyInt(n) ELSE PyStr
            sample_data == IF dOk THEN ExecuteSelect(n, SampleQuery)
                           ELSE <<"Error retrieving sample data">>
            evCol == Ev("q_columns", s, t, colOk)
            evCount == Ev("q_count", s, t, countOk)
            evData == Ev("q_data", s, t, dOk)
        IN
        IF ~colOk
        THEN Abort(<<evCol>>)
             /\ UNCHANGED <<tables, total, facts, todo, cur>>
        ELSE IF ~countOk /\ "count" \notin g
        THEN Abort(<<evCol, evCount>>)
             /\ UNCHANGED <<tables, total, facts, todo, cur>>
        ELSE IF ~dOk /\ "data" \notin g
        THEN Abort(<<evCol, evCount, evData>>)
             /\ UNCHANGED <<tables, total, facts, todo, cur>>
        ELSE /\ trace' = trace \o <<evCol, evCount, evData>>
             /\ tables' = Append(tables,
                    [schema |-> s, name |-> t, row_count |-> row_count,
                     sample_data |-> sample_data])
             /\ total' = IF countOk THEN AddRowCount(total, n) ELSE total
             /\ facts' = Append(facts,
                    [nrows |-> n, count_ok |-> countOk, data_ok |-> dOk])
             /\ NextTable
             /\ UNCHANGED <<connection, result>>
    /\ UNCHANGED <<argv, hyper_process, schemas, listed, stdout, outfile,
                   exit_code, raised>>

Finish ==
    /\ pc = "tables"
    /\ cur > Len(schemas)
    /\ result' =
         IF argv.command = "export"
         THEN [file_path |-> argv.path,
               export_type |-> IF argv.sample_only THEN "sample_only"
                               ELSE "full_data",
               max_rows_per_table |-> argv.max_rows,
               success |-> TRUE,
               schemas |-> schemas,
               tables |-> tables,
               total_tables |-> Len(tables),
               total_rows_exported |-> total]
         ELSE [file_path |-> argv.path,
               success |-> TRUE,
               schemas |-> schemas,
               tables |-> tables,
               total_tables |-> Len(tables),
               total_rows |-> total]
    /\ connection' = ConnectionExit(connection, FALSE)
    /\ trace' = Append(trace, Ev("conn_close", 0, 0, TRUE))
    /\ pc' = "output"
    /\ UNCHANGED <<argv, hyper_process, schemas, cur, todo, tables, total,
                   facts, listed, stdout, outfile, exit_code, raised>>

Output ==
    /\ pc = "output"
    /\ \E o \in BOOLEAN :
        /\ argv' = [argv EXCEPT !.output = o]
        /\ IF o
           THEN /\ \E ok \in BOOLEAN :
                       IF ok
                       THEN outfile' = Append(outfile, Json(result))
                            /\ UNCHANGED raised
                       ELSE raised' = TRUE /\ UNCHANGED outfile
                /\ UNCHANGED stdout
           ELSE /\ stdout' = Append(stdout, Json(result))
                /\ UNCHANGED <<outfile, raised>>
    /\ pc' = "exit"
    /\ UNCHANGED <<hyper_process, connection, result, schemas, cur, todo,
                   tables, total, facts, listed, trace, exit_code>>

ExitInspector ==
    /\ pc = "exit"
    /\ hyper_process' = InspectorExit(hyper_process, raised)
    /\ trace' = IF hyper_process' # hyper_process
                THEN Append(trace, Ev("process_close", 0, 0, TRUE))
                ELSE trace
    /\ IF raised
       THEN pc' = "handler" /\ UNCHANGED exit_code
       ELSE pc' = "exited" /\ exit_code' = ExitStatus(raised)
    /\ UNCHANGED <<argv, connection, result, schemas, cur, todo, tables, total,
                   facts, listed, stdout, outfile, raised>>

Handler ==
    /\ pc = "handler"
    /\ stdout' = Append(stdout,
                   Json([error |-> "Critical error", success |-> FALSE]))
    /\ exit_code' = ExitStatus(raised)
    /\ pc' = "exited"
    /\ UNCHANGED <<argv, hyper_process, connection, result, schemas, cur, todo,
                   tables, total, facts, listed, trace, outfile, raised>>

Next ==
    \/ ImportModule
    \/ ParseArgs
    \/ Enter
    \/ Discover
    \/ Precheck
    \/ Connect
    \/ SchemasQuery
    \/ SchemasFallback
    \/ TablesQuery
    \/ ExportTable
    \/ InspectTable
    \/ Finish
    \/ Output
    \/ ExitInspector
    \/ Handler

Spec == Init /\ [][Next]_vars

\* ------------------------------------------------------------ observations
Cmd == argv.command
Exited == pc = "exited"
Events(ev) == {i \in 1..Len(trace) : trace[i].ev = ev}
Failed(ev) == {i \in Events(ev) : ~trace[i].ok}
Succeeded(ev) == {i \in Events(ev) : trace[i].ok}
AllOkExcept(evs) == \A i \in 1..Len(trace) : trace[i].ok \/ trace[i].ev \in evs
Rejected ==
    /\ Returned
    /\ ~result.success
    /\ result.error \in {"File not found", "Not a .hyper file"}
BadPath == ~Exists(argv.path) \/ ~EndsWith(Lower(argv.path), DotHyper)
ContainsNotFound(err) == err \in {"File not found", "Directory not found"}
Warnings == {i \in 1..Len(stdout) : stdout[i].kind = "warning"}
ErrorObject(o) ==
    o.kind = "json" /\ ~o.obj.success /\ "error" \in DOMAIN o.obj
ErrorEmitted ==
    \/ \E i \in 1..Len(stdout) : ErrorObject(stdout[i])
    \/ \E i \in 1..Len(outfile) : ErrorObject(outfile[i])
ResultEmitted ==
    /\ Returned
    /\ \/ \E i \in 1..Len(stdout) : stdout[i] = Json(result)
       \/ \E i \in 1..Len(outfile) : outfile[i] = Json(result)

RECURSIVE SumRowCounts(_)
SumRowCounts(ts) ==
    IF ts = <<>> THEN 0 ELSE Head(ts).row_count.v + SumRowCounts(Tail(ts))

\* ------------------------------------------------------------------ claims

\* C1 (as stated): an invocation of inspect or export that ends with a
\* rejection of the path has neither started the engine process nor opened a
\* connection.
C1_NoEngineBeforeRejection ==
    Rejected =>
        \A i \in 1..Len(trace) : trace[i].ev \notin {"process_start", "conn_open"}

\* C1 (amended): inspect and export answer a path that does not exist or does
\* not end in .hyper (case-insensitively) with a rejection, and an invocation
\* that ends with such a rejection has opened no connection; the engine
\* process has been started by main before the command ran.
C1_NoConnectionBeforeRejection ==
    /\ (Returned /\ Cmd \in {"inspect", "export"} /\ BadPath) => Rejected
    /\ (Cmd \in {"inspect", "export"} /\ BadPath) => Events("conn_open") = {}
    /\ Rejected => (Events("conn_open") = {} /\ Succeeded("process_start") # {})

C1_Witness ==
    /\ Exited
    /\ Cmd = "inspect"
    /\ argv.path = NoDotHyper
    /\ Rejected
    /\ hyper_process = "closed"

\* C2: for each command, a path that does not exist yields a result with
\* success = false, an error naming the path as not found, and no payload key.
C2_NotFoundNoPayload ==
    (Returned /\ ~Exists(argv.path)) =>
        /\ ~result.success
        /\ ContainsNotFound(result.error)
        /\ DOMAIN result \cap PayloadKeys = {}

C2_Witness ==
    /\ Exited
    /\ Cmd = "export"
    /\ argv.path = TextMissing
    /\ Returned
    /\ result.error = "File not found"

\* C3 (as stated): export with --max-rows N and without --sample-only returns
\* min(N, total_rows) rows for every table whose count query and data query
\* succeeded, for every N, N = 0 included.
C3_MaxRowsExact ==
    (Returned /\ Cmd = "export" /\ result.success /\ ~argv.sample_only
       /\ argv.max_rows.given) =>
        \A i \in 1..Len(result.tables) :
            (facts[i].count_ok /\ facts[i].data_ok) =>
                /\ result.tables[i].total_rows = facts[i].nrows
                /\ Len(result.tables[i].data)
                      = Min(argv.max_rows.v, result.tables[i].total_rows)

\* C4: export with --sample-only returns at most 5 rows for every table,
\* whatever the table's size and the --max-rows value given with it.
C4_SampleOnlyCap ==
    (Returned /\ Cmd = "export" /\ result.success /\ argv.sample_only) =>
        \A i \in 1..Len(result.tables) :
            /\ Len(result.tables[i].data) <= 5
            /\ result.tables[i].exported_rows <= 5

C4_Witness ==
    /\ Returned
    /\ Cmd = "export"
    /\ result.success
    /\ argv.sample_only
    /\ argv.max_rows = Some(MaxN)
    /\ \E i \in 1..Len(result.tables) :
          facts[i].nrows > 5 /\ Len(result.tables[i].data) = 5

\* C5 (as stated): in a successful inspect result every table's sample_data
\* has at most 5 entries and at most row_count entries, also for a table whose
\* count query or sample query failed.
C5_SampleBoundAlways ==
    (Returned /\ Cmd = "inspect" /\ result.success) =>
        \A i \in 1..Len(result.tables) :
            /\ Len(result.tables[i].sample_data) <= 5
            /\ result.tables[i].row_count.type = "int"
            /\ Len(result.tables[i].sample_data) <= result.tables[i].row_count.v

\* C5 (amended): in a successful inspect result every table's sample_data has
\* at most 5 entries, and at most row_count entries for every table whose
\* count query and sample query both succeeded.
C5_SampleBoundWhenQueriesSucceed ==
    (Returned /\ Cmd = "inspect" /\ result.success) =>
        \A i \in 1..Len(result.tables) :
            /\ Len(result.tables[i].sample_data) <= 5
            /\ (facts[i].count_ok /\ facts[i].data_ok) =>
                  /\ result.tables[i].row_count.type = "int"
                  /\ Len(result.tables[i].sample_data)
                        <= result.tables[i].row_count.v

C5_Witness ==
    /\ Returned
    /\ Cmd = "inspect"
    /\ result.success
    /\ \E i \in 1..Len(result.tables) :
          /\ facts[i].count_ok
          /\ facts[i].data_ok
          /\ facts[i].nrows > 5
          /\ Len(result.tables[i].sample_data) = 5

\* C6: in a successful inspect result where no query failed, total_rows is
\* the sum of the row_count values of the entries of tables.
C6_TotalRowsIsSum ==
    (Returned /\ Cmd = "inspect" /\ result.success /\ AllOkExcept({})) =>
        result.total_rows = SumRowCounts(result.tables)

C6_Witness ==
    /\ Returned
    /\ Cmd = "inspect"
    /\ result.success
    /\ AllOkExcept({})
    /\ Len(result.tables) = 2
    /\ \A i \in 1..2 : result.tables[i].row_count.v > 0
    /\ result.total_rows = 2 * MaxTableRows

\* the data export is to return for table i of the result
ExpectedData(i) ==
    ExecuteSelect(facts[i].nrows, DataQuery(argv.sample_only, argv.max_rows))

ExportRan == Returned /\ Cmd = "export" /\ Succeeded("conn_open") # {}

\* C7 (as stated): in export the failure of a table's column, count or data
\* query does not abort the export: a warning is logged, every table listed
\* appears in tables with its data, and success = true.
C7_AnyTableQueryFailureTolerated ==
    (ExportRan /\ AllOkExcept({"q_columns", "q_count", "q_data"})) =>
        /\ result.success
        /\ Len(result.tables) = listed
        /\ \A i \in 1..Len(result.tables) :
              facts[i].data_ok => result.tables[i].data = ExpectedData(i)
        /\ ~AllOkExcept({}) => Warnings # {}

\* C7 (amended): in export the failure of a table's count query or data query
\* does not abort the export: the table still appears in tables (total_rows 0
\* after a failed count, data [] and one logged warning after a failed data
\* query), every other table listed appears with its data, and success = true;
\* the failure of a table's column query aborts the export with
\* success = false.
C7_CountOrDataFailureTolerated ==
    /\ (ExportRan /\ AllOkExcept({"q_count", "q_data"})) =>
          /\ result.success
          /\ Len(result.tables) = listed
          /\ Cardinality(Warnings) = Cardinality(Failed("q_data"))
          /\ \A i \in 1..Len(result.tables) :
                /\ result.tables[i].total_rows
                      = IF facts[i].count_ok THEN facts[i].nrows ELSE 0
                /\ result.tables[i].data
                      = IF facts[i].data_ok THEN ExpectedData(i) ELSE <<>>
    /\ (ExportRan /\ Failed("q_columns") # {}) =>
          (~result.success /\ DOMAIN result \cap PayloadKeys = {})

C7_Witness ==
    /\ ExportRan
    /\ result.success
    /\ Len(result.tables) = 2
    /\ ~facts[1].data_ok
    /\ result.tables[1].data = <<>>
    /\ facts[2].data_ok
    /\ Len(result.tables[2].data) > 0
    /\ Cardinality(Warnings) = 1

\* the queries and engine calls issued so far, each named by its kind and
\* the schema and table it is about
Issued == {<<trace[i].ev, trace[i].s, trace[i].t>> : i \in 1..Len(trace)}

\* C8 (as stated): in inspect and in export a failed primary schema query is
\* followed by exactly one attempt of the alternate query, and the operation
\* succeeds when the alternate query and every later query do.
C8_FallbackInBothCommands ==
    (Returned /\ Cmd \in {"inspect", "export"} /\ Failed("q_schemas") # {}) =>
        /\ Cardinality(Events("q_schemas_alt")) = 1
        /\ AllOkExcept({"q_schemas"}) => result.success

\* C8 (amended): in export the schema listing is a fixed two-attempt sequence:
\* the primary query first, the alternate query exactly once and only after
\* the primary failed, and the operation succeeds when the alternate query
\* and every later query do; inspect issues a single schema query with no
\* fallback, whose failure fails the operation; no query is issued twice.
C8_FallbackInExportOnly ==
    /\ Cardinality(Issued) = Len(trace)
    /\ \A j \in Events("q_schemas_alt") :
          \E i \in Failed("q_schemas") : i < j
    /\ (Returned /\ Cmd = "export" /\ Failed("q_schemas") # {}) =>
          /\ Cardinality(Events("q_schemas_alt")) = 1
          /\ AllOkExcept({"q_schemas"}) => result.success
    /\ (Returned /\ Cmd = "inspect" /\ Failed("q_schemas") # {}) =>
          /\ Events("q_schemas_alt") = {}
          /\ ~result.success

C8_Witness ==
    /\ Returned
    /\ Cmd = "export"
    /\ Failed("q_schemas") # {}
    /\ Succeeded("q_schemas_alt") # {}
    /\ result.success
    /\ Len(result.tables) > 0

\* C9: whenever an invocation has ended, the engine process and the
\* connection it acquired have been released; at most one process and one
\* connection are ever acquired, the connection lives only while the process
\* runs, and it is closed before the process is.
C9_ScopedRelease ==
    /\ Exited => (hyper_process # "running" /\ connection # "open")
    /\ Returned => connection # "open"
    /\ connection = "open" => hyper_process = "running"
    /\ Cardinality(Succeeded("process_start")) <= 1
    /\ Cardinality(Succeeded("conn_open")) <= 1
    /\ \A i \in Events("process_close"), j \in Events("conn_close") : j < i
    /\ (Exited /\ Succeeded("process_start") # {}) => Events("process_close") # {}
    /\ (Exited /\ Succeeded("conn_open") # {}) => Events("conn_close") # {}

C9_Witness ==
    /\ Exited
    /\ raised
    /\ Succeeded("conn_open") # {}
    /\ Failed("q_columns") # {}
    /\ connection = "closed"
    /\ hyper_process = "closed"

ParserRejected == argv.command \notin Choices

WellFormed(o) ==
    /\ o.kind = "json"
    /\ "success" \in DOMAIN o.obj
    /\ o.obj.success \in BOOLEAN
    /\ IF o.obj.success
       THEN DOMAIN o.obj \cap PayloadKeys # {}
       ELSE "error" \in DOMAIN o.obj

\* C11 (as stated): the output of an invocation that ends with code 0 or 1 is
\* a single JSON object with a boolean success and an error string or the
\* payload, and nothing else is written to it: standard output when --output
\* is absent, the output file of an invocation that ends with code 0 when
\* --output is given.
C11_SingleJsonObject ==
    /\ (Exited /\ exit_code \in {0, 1} /\ ~argv.output) =>
          (Len(stdout) = 1 /\ WellFormed(stdout[1]))
    /\ (Exited /\ exit_code = 0 /\ argv.output) =>
          (Len(outfile) = 1 /\ WellFormed(outfile[1]))

ExportSucceeded == Returned /\ Cmd = "export" /\ result.success
NoLimitApplied == ~argv.sample_only /\ ~argv.max_rows.given

\* C12 (as stated): in a successful export with neither --sample-only nor
\* --max-rows, every table's total_rows equals its exported_rows and the
\* length of its data, also when its count query or its data query failed.
C12_CountEqualsScannedAlways ==
    (ExportSucceeded /\ NoLimitApplied) =>
        \A i \in 1..Len(result.tables) :
            /\ result.tables[i].total_rows = result.tables[i].exported_rows
            /\ result.tables[i].total_rows = Len(result.tables[i].data)

\* C12 (amended): in a successful export with neither --sample-only nor
\* --max-rows, every table's total_rows equals its exported_rows and the
\* length of its data, for every table whose count query and data query both
\* succeeded or both failed.
C12_CountEqualsScannedWhenQueriesAgree ==
    (ExportSucceeded /\ NoLimitApplied) =>
        \A i \in 1..Len(result.tables) :
            (facts[i].count_ok = facts[i].data_ok) =>
                /\ result.tables[i].total_rows = result.tables[i].exported_rows
                /\ result.tables[i].total_rows = Len(result.tables[i].data)

C12_Witness ==
    /\ ExportSucceeded
    /\ NoLimitApplied
    /\ Len(result.tables) = 2
    /\ facts[1].count_ok
    /\ facts[1].data_ok
    /\ result.tables[1].total_rows = MaxTableRows
    /\ Len(result.tables[1].data) = MaxTableRows
    /\ ~facts[2].count_ok
    /\ ~facts[2].data_ok
    /\ facts[2].nrows > 0

RECURSIVE SumExportedRows(_)
SumExportedRows(ts) ==
    IF ts = <<>> THEN 0 ELSE Head(ts).exported_rows + SumExportedRows(Tail(ts))

\* C13: in a successful export result every table's exported_rows is the
\* length of its data, total_rows_exported is the sum of the exported_rows,
\* and a table whose data query failed has data = [] and adds nothing to the
\* total, also when rows had been converted before the failure.
C13_ExportedRowsAddUp ==
    ExportSucceeded =>
        /\ \A i \in 1..Len(result.tables) :
              /\ result.tables[i].exported_rows = Len(result.tables[i].data)
              /\ ~facts[i].data_ok =>
                    (result.tables[i].data = <<>>
                       /\ result.tables[i].exported_rows = 0)
        /\ result.total_rows_exported = SumExportedRows(result.tables)

C13_Witness ==
    /\ ExportSucceeded
    /\ Len(result.tables) = 2
    /\ ~facts[1].data_ok
    /\ facts[1].converted > 0
    /\ result.tables[1].data = <<>>
    /\ facts[2].data_ok
    /\ result.tables[2].exported_rows > 0
    /\ result.total_rows_exported = result.tables[2].exported_rows

====
